---- MODULE Spec2Model ----
(***************************************************************************)
(* The Dify JavaScript client (DifyClient, CompletionClient, ChatClient):  *)
(* the endpoint registry, the request dispatcher sendRequest and the       *)
(* client operations built on them, with the HTTP transport (axios) as the *)
(* environment.                                                            *)
(*                                                                         *)
(* JavaScript values.  A scalar is written as the string a template        *)
(* literal renders it to: undefined is "undefined", null is "null", true   *)
(* is "true", the number 0 is "0", the empty string is "".  Real string    *)
(* arguments ("c1", "u1", ...) never collide with those renderings.  An    *)
(* object is a function from its keys to values; null and undefined at a   *)
(* position that holds objects (data, params, headerParams) are the        *)
(* one-key objects Null and Undefined.                                     *)
(***************************************************************************)
EXTENDS Integers, Sequences, FiniteSets, TLC

VARIABLES apiKey, baseUrl, calls, updateLog

vars == <<apiKey, baseUrl, calls, updateLog>>

-----------------------------------------------------------------------------
(* Bounds *)

\* the most calls a concurrent caller issues on one client
MaxCalls == 2

-----------------------------------------------------------------------------
(* JavaScript values *)

Falsy == {"undefined", "null", "false", "0", ""}

Truthy(v) == v \notin Falsy

\* a default parameter value (x = d) applies exactly when the argument is undefined
Default(v, d) == IF v = "undefined" THEN d ELSE v

Null == [null |-> "null"]

Undefined == [undefined |-> "undefined"]

EmptyObj == [k \in {} |-> "undefined"]

DefaultObj(v, d) == IF v = Undefined THEN d ELSE v

\* object spread {...a, ...b}: the later entry wins per key
SpreadDefaultsWin(a, b) == a @@ b

Spread(a, b) == b @@ a

-----------------------------------------------------------------------------
(* Argument values *)

BASE_URL == "https://api.dify.ai/v1"

BaseUrls == {BASE_URL, "http://localhost/v1"}

Keys == {"k1", "k2"}

UpdateKeys == Keys \cup {"", "undefined"}

Users == {"u1"}

Ids == {"c1", "m2"}

PathArgs == Ids \cup {"undefined", "null", ""}

Streams == {"undefined", "null", "false", "true"}

ConversationIds == {"undefined", "null", "", "c1"}

FirstIds == {"undefined", "", "m2"}

Limits == {"undefined", "0", "5"}

Pinneds == {"undefined", "false", "true"}

Files == {"undefined", "files1"}

Inputs == {[id |-> "in1"]}

FormDatas == {[form |-> "fd1"]}

ChatMessageConfigs ==
  [inputs : Inputs, query : {"q1"}, user : Users, stream : {"undefined", "false", "true"},
   conversation_id : {"undefined", "", "c1"}, files : {"null", "files1"}]

HeaderParamsSet ==
  {Undefined, EmptyObj, "Content-Type" :> "text/plain", "Authorization" :> "Bearer other",
   "X-Trace" :> "t1"}

Responses == {"r200"}

Errors == {"e500", "enetwork"}

-----------------------------------------------------------------------------
(* Endpoint registry *)

routes ==
  [application |-> [method |-> "GET", url |-> [p \in PathArgs |-> "/parameters"]],
   feedback |-> [method |-> "POST",
                 url |-> [message_id \in PathArgs |-> "/messages/" \o message_id \o "/feedbacks"]],
   createCompletionMessage |-> [method |-> "POST", url |-> [p \in PathArgs |-> "/completion-messages"]],
   createChatMessage |-> [method |-> "POST", url |-> [p \in PathArgs |-> "/chat-messages"]],
   getConversationMessages |-> [method |-> "GET", url |-> [p \in PathArgs |-> "/messages"]],
   getConversations |-> [method |-> "GET", url |-> [p \in PathArgs |-> "/conversations"]],
   renameConversation |-> [method |-> "POST",
                           url |-> [conversation_id \in PathArgs |->
                                      "/conversations/" \o conversation_id \o "/name"]],
   deleteConversation |-> [method |-> "DELETE",
                           url |-> [conversation_id \in PathArgs |->
                                      "/conversations/" \o conversation_id]],
   fileUpload |-> [method |-> "POST", url |-> [p \in PathArgs |-> "/files/upload"]],
   runWorkflow |-> [method |-> "POST", url |-> [p \in PathArgs |-> "/workflows/run"]]]

-----------------------------------------------------------------------------
(* Request dispatcher: the part of sendRequest that runs before its await *)

AuthorizationNoScheme(key) == key

Authorization(key) == "Bearer " \o key

DefaultHeadersFirstKey(key) ==
  ("Authorization" :> Authorization("k1")) @@ ("Content-Type" :> "application/json")

DefaultHeaders(key) ==
  ("Authorization" :> Authorization(key)) @@ ("Content-Type" :> "application/json")

UrlEndpointOnly(base, endpoint) == endpoint

Url(base, endpoint) == base \o endpoint

ResponseType(stream) == IF Truthy(stream) THEN "stream" ELSE "json"

\* the argument object handed to axios
sendRequest(key, base, method, endpoint, data0, params0, stream0, headerParams0) ==
  LET data == DefaultObj(data0, Null)
      params == DefaultObj(params0, Null)
      stream == Default(stream0, "false")
      headerParams == DefaultObj(headerParams0, EmptyObj)
  IN [method |-> method,
      url |-> Url(base, endpoint),
      data |-> data,
      params |-> params,
      headers |-> Spread(DefaultHeaders(key), headerParams),
      responseType |-> ResponseType(stream)]

Pending == [kind |-> "pending", v |-> "none"]

\* one call of a client operation: its arguments, the axios request it issued,
\* the number of axios calls made for it, the transport's outcome and the
\* state of the promise the operation returned
Call(op, args, stream, req) ==
  [op |-> op, args |-> args, stream |-> stream, req |-> req, attempts |-> 1,
   transport |-> Pending, promise |-> Pending]

-----------------------------------------------------------------------------
(* Base client operations *)

messageFeedback(key, base, message_id, rating, user) ==
  LET data == [rating |-> rating, user |-> user]
  IN Call("messageFeedback", [message_id |-> message_id, rating |-> rating, user |-> user],
          "undefined",
          sendRequest(key, base, routes.feedback.method, routes.feedback.url[message_id],
                      data, Undefined, "undefined", Undefined))

getApplicationParameters(key, base, user) ==
  LET params == [user |-> user]
  IN Call("getApplicationParameters", [user |-> user], "undefined",
          sendRequest(key, base, routes.application.method, routes.application.url["undefined"],
                      Null, params, "undefined", Undefined))

fileUpload(key, base, data) ==
  Call("fileUpload", [data |-> data], "false",
       sendRequest(key, base, routes.fileUpload.method, routes.fileUpload.url["undefined"],
                   data, Null, "false", "Content-Type" :> "multipart/form-data"))

-----------------------------------------------------------------------------
(* Completion client operations *)

ResponseModeBlocking(stream) == "blocking"

ResponseMode(stream) == IF Truthy(stream) THEN "streaming" ELSE "blocking"

createCompletionMessage(key, base, inputs, user, stream0, files0) ==
  LET stream == Default(stream0, "false")
      files == Default(files0, "null")
      data == [inputs |-> inputs, user |-> user, response_mode |-> ResponseMode(stream),
               files |-> files]
  IN Call("createCompletionMessage",
          [inputs |-> inputs, user |-> user, stream |-> stream0, files |-> files0], stream,
          sendRequest(key, base, routes.createCompletionMessage.method,
                      routes.createCompletionMessage.url["undefined"], data, Null, stream,
                      Undefined))

runWorkflow(key, base, inputs, user, stream0, files0) ==
  LET stream == Default(stream0, "false")
      data == [inputs |-> inputs, user |-> user, response_mode |-> ResponseMode(stream)]
  IN Call("runWorkflow",
          [inputs |-> inputs, user |-> user, stream |-> stream0, files |-> files0], stream,
          sendRequest(key, base, routes.runWorkflow.method, routes.runWorkflow.url["undefined"],
                      data, Null, stream, Undefined))

-----------------------------------------------------------------------------
(* Chat client operations *)

WithConversationIdAlways(data, conversation_id) ==
  ("conversation_id" :> conversation_id) @@ data

\* if (conversation_id) data.conversation_id = conversation_id
WithConversationId(data, conversation_id) ==
  IF Truthy(conversation_id) THEN ("conversation_id" :> conversation_id) @@ data ELSE data

createChatMessage(key, base, inputs, query, user, stream0, conversation_id0, files0) ==
  LET stream == Default(stream0, "false")
      conversation_id == Default(conversation_id0, "null")
      files == Default(files0, "null")
      data == [inputs |-> inputs, query |-> query, user |-> user,
               response_mode |-> ResponseMode(stream), files |-> files]
  IN Call("createChatMessage",
          [inputs |-> inputs, query |-> query, user |-> user, stream |-> stream0,
           conversation_id |-> conversation_id0, files |-> files0], stream,
          sendRequest(key, base, routes.createChatMessage.method,
                      routes.createChatMessage.url["undefined"],
                      WithConversationId(data, conversation_id), Null, stream, Undefined))

\* if (value) params[name] = value
WithParam(params, name, value) ==
  IF Truthy(value) THEN (name :> value) @@ params ELSE params

getConversationMessages(key, base, user, conversation_id0, first_id0, limit0) ==
  LET conversation_id == Default(conversation_id0, "")
      first_id == Default(first_id0, "null")
      limit == Default(limit0, "null")
      params == WithParam(WithParam(WithParam([user |-> user],
                                              "conversation_id", conversation_id),
                                    "first_id", first_id),
                          "limit", limit)
  IN Call("getConversationMessages",
          [user |-> user, conversation_id |-> conversation_id0, first_id |-> first_id0,
           limit |-> limit0], "undefined",
          sendRequest(key, base, routes.getConversationMessages.method,
                      routes.getConversationMessages.url["undefined"], Null, params,
                      "undefined", Undefined))

ConversationsParamsTruthyOnly(user, first_id, limit, pinned) ==
  WithParam(WithParam(WithParam([user |-> user], "first_id", first_id), "limit", limit),
            "pinned", pinned)

ConversationsParams(user, first_id, limit, pinned) ==
  [user |-> user, first_id |-> first_id, limit |-> limit, pinned |-> pinned]

getConversations(key, base, user, first_id0, limit0, pinned0) ==
  LET first_id == Default(first_id0, "null")
      limit == Default(limit0, "null")
      pinned == Default(pinned0, "null")
  IN Call("getConversations",
          [user |-> user, first_id |-> first_id0, limit |-> limit0, pinned |-> pinned0],
          "undefined",
          sendRequest(key, base, routes.getConversations.method,
                      routes.getConversations.url["undefined"], Null,
                      ConversationsParams(user, first_id, limit, pinned), "undefined",
                      Undefined))

renameConversation(key, base, conversation_id, name, user, auto_generate) ==
  LET data == [name |-> name, user |-> user, auto_generate |-> auto_generate]
  IN Call("renameConversation",
          [conversation_id |-> conversation_id, name |-> name, user |-> user,
           auto_generate |-> auto_generate], "undefined",
          sendRequest(key, base, routes.renameConversation.method,
                      routes.renameConversation.url[conversation_id], data, Undefined,
                      "undefined", Undefined))

deleteConversation(key, base, conversation_id, user) ==
  LET data == [user |-> user]
  IN Call("deleteConversation", [conversation_id |-> conversation_id, user |-> user],
          "undefined",
          sendRequest(key, base, routes.deleteConversation.method,
                      routes.deleteConversation.url[conversation_id], data, Undefined,
                      "undefined", Undefined))

-----------------------------------------------------------------------------
(* The client and its calls *)

NoUpdate == [called |-> FALSE, arg |-> "undefined", before |-> "undefined", threw |-> FALSE]

\* new DifyClient(apiKey, baseUrl = BASE_URL)
Init ==
  /\ apiKey \in Keys
  /\ baseUrl \in BaseUrls
  /\ calls = <<>>
  /\ updateLog = NoUpdate

\* updateApiKey(apiKey): the assignment, and the record of how the call ended
UpdateApiKey(key) ==
  /\ apiKey' = key
  /\ updateLog' = [called |-> TRUE, arg |-> key, before |-> apiKey, threw |-> FALSE]
  /\ UNCHANGED <<baseUrl, calls>>

\* the synchronous part of an operation: the axios call is made and the
\* pending promise is handed to the caller
Issue(c) ==
  /\ calls' = Append(calls, c)
  /\ UNCHANGED <<apiKey, baseUrl, updateLog>>

MessageFeedback(message_id, rating, user) ==
  Issue(messageFeedback(apiKey, baseUrl, message_id, rating, user))

GetApplicationParameters(user) ==
  Issue(getApplicationParameters(apiKey, baseUrl, user))

FileUpload(data) ==
  Issue(fileUpload(apiKey, baseUrl, data))

CreateCompletionMessage(inputs, user, stream, files) ==
  Issue(createCompletionMessage(apiKey, baseUrl, inputs, user, stream, files))

RunWorkflow(inputs, user, stream, files) ==
  Issue(runWorkflow(apiKey, baseUrl, inputs, user, stream, files))

CreateChatMessage(inputs, query, user, stream, conversation_id, files) ==
  Issue(createChatMessage(apiKey, baseUrl, inputs, query, user, stream, conversation_id, files))

\* createChatMessage(config), the call the type declaration describes: the
\* config object arrives as the first positional parameter
CreateChatMessageConfig(config) ==
  Issue(createChatMessage(apiKey, baseUrl, config, "undefined", "undefined", "undefined",
                          "undefined", "undefined"))

GetConversationMessages(user, conversation_id, first_id, limit) ==
  Issue(getConversationMessages(apiKey, baseUrl, user, conversation_id, first_id, limit))

GetConversations(user, first_id, limit, pinned) ==
  Issue(getConversations(apiKey, baseUrl, user, first_id, limit, pinned))

RenameConversation(conversation_id, name, user, auto_generate) ==
  Issue(renameConversation(apiKey, baseUrl, conversation_id, name, user, auto_generate))

DeleteConversation(conversation_id, user) ==
  Issue(deleteConversation(apiKey, baseUrl, conversation_id, user))

\* a direct call of the public method sendRequest
SendRequest(method, endpoint, data, params, stream, headerParams) ==
  Issue(Call("sendRequest",
             [method |-> method, endpoint |-> endpoint, data |-> data, params |-> params,
              stream |-> stream, headerParams |-> headerParams],
             stream,
             sendRequest(apiKey, baseUrl, method, endpoint, data, params, stream, headerParams)))

-----------------------------------------------------------------------------
(* The transport settles a request; sendRequest resumes after its await *)

Settled(kind, v) == [kind |-> kind, v |-> v]

\* response = await axios(...); return response
OnFulfilled(c, response) ==
  [c EXCEPT !.transport = Settled("fulfilled", response),
            !.promise = Settled("fulfilled", response)]

OnRejectedRetry(c, error) ==
  [c EXCEPT !.transport = Settled("rejected", error), !.attempts = @ + 1]

\* the await throws: the async function's promise is rejected with the error
OnRejected(c, error) ==
  [c EXCEPT !.transport = Settled("rejected", error),
            !.promise = Settled("rejected", error)]

AxiosResolve(i, response) ==
  /\ i \in DOMAIN calls
  /\ calls[i].promise = Pending
  /\ calls' = [calls EXCEPT ![i] = OnFulfilled(@, response)]
  /\ UNCHANGED <<apiKey, baseUrl, updateLog>>

AxiosReject(i, error) ==
  /\ i \in DOMAIN calls
  /\ calls[i].promise = Pending
  /\ calls' = [calls EXCEPT ![i] = OnRejected(@, error)]
  /\ UNCHANGED <<apiKey, baseUrl, updateLog>>

\* the awaiting caller takes the settled result; the client keeps nothing of it
Consume ==
  /\ calls # <<>>
  /\ calls[1].promise # Pending
  /\ calls' = Tail(calls)
  /\ UNCHANGED <<apiKey, baseUrl, updateLog>>

-----------------------------------------------------------------------------
(* A caller that awaits each call before making the next, over all argument *)
(* values                                                                   *)

Awaited == calls = <<>>

DoUpdateApiKey == \E key \in UpdateKeys : UpdateApiKey(key)

DoMessageFeedback ==
  Awaited /\ \E message_id \in PathArgs, user \in Users : MessageFeedback(message_id, "5", user)

DoGetApplicationParameters ==
  Awaited /\ \E user \in Users : GetApplicationParameters(user)

DoFileUpload ==
  Awaited /\ \E data \in FormDatas : FileUpload(data)

DoCreateCompletionMessage ==
  Awaited /\ \E inputs \in Inputs, user \in Users, stream \in Streams, files \in Files :
               CreateCompletionMessage(inputs, user, stream, files)

DoRunWorkflow ==
  Awaited /\ \E inputs \in Inputs, user \in Users, stream \in Streams, files \in Files :
               RunWorkflow(inputs, user, stream, files)

DoCreateChatMessage ==
  Awaited /\ \E inputs \in Inputs, user \in Users, stream \in Streams,
                conversation_id \in ConversationIds, files \in Files :
               CreateChatMessage(inputs, "q1", user, stream, conversation_id, files)

DoCreateChatMessageConfig ==
  Awaited /\ \E config \in ChatMessageConfigs : CreateChatMessageConfig(config)

DoGetConversationMessages ==
  Awaited /\ \E user \in Users, conversation_id \in ConversationIds, first_id \in FirstIds,
                limit \in Limits :
               GetConversationMessages(user, conversation_id, first_id, limit)

DoGetConversations ==
  Awaited /\ \E user \in Users, first_id \in FirstIds, limit \in Limits, pinned \in Pinneds :
               GetConversations(user, first_id, limit, pinned)

DoRenameConversation ==
  Awaited /\ \E conversation_id \in PathArgs, user \in Users,
                auto_generate \in {"undefined", "true"} :
               RenameConversation(conversation_id, "New", user, auto_generate)

DoDeleteConversation ==
  Awaited /\ \E conversation_id \in PathArgs, user \in Users :
               DeleteConversation(conversation_id, user)

DoSendRequest ==
  Awaited /\ \E method \in {"GET", "PATCH"}, data \in {Undefined, [user |-> "u1"]},
                stream \in Streams, headerParams \in HeaderParamsSet :
               SendRequest(method, "/parameters", data, Undefined, stream, headerParams)

DoAxiosResolve == \E i \in DOMAIN calls, response \in Responses : AxiosResolve(i, response)

DoAxiosReject == \E i \in DOMAIN calls, error \in Errors : AxiosReject(i, error)

Next ==
  \/ DoUpdateApiKey
  \/ DoMessageFeedback
  \/ DoGetApplicationParameters
  \/ DoFileUpload
  \/ DoCreateCompletionMessage
  \/ DoRunWorkflow
  \/ DoCreateChatMessage
  \/ DoCreateChatMessageConfig
  \/ DoGetConversationMessages
  \/ DoGetConversations
  \/ DoRenameConversation
  \/ DoDeleteConversation
  \/ DoSendRequest
  \/ DoAxiosResolve
  \/ DoAxiosReject
  \/ Consume

Spec == Init /\ [][Next]_vars

-----------------------------------------------------------------------------
(* A caller that issues up to MaxCalls calls without awaiting them and      *)
(* updates the key in between, over representative argument values          *)

Room == Len(calls) < MaxCalls

InitConcurrent ==
  /\ apiKey \in Keys
  /\ baseUrl = BASE_URL
  /\ calls = <<>>
  /\ updateLog = NoUpdate

RaceUpdateApiKey == \E key \in Keys : UpdateApiKey(key)

RaceMessageFeedback == Room /\ MessageFeedback("m2", "5", "u1")

RaceGetApplicationParameters == Room /\ GetApplicationParameters("u1")

RaceFileUpload == Room /\ \E data \in FormDatas : FileUpload(data)

RaceCreateCompletionMessage ==
  Room /\ \E inputs \in Inputs : CreateCompletionMessage(inputs, "u1", "true", "undefined")

RaceRunWorkflow ==
  Room /\ \E inputs \in Inputs : RunWorkflow(inputs, "u1", "undefined", "undefined")

RaceCreateChatMessage ==
  Room /\ \E inputs \in Inputs : CreateChatMessage(inputs, "q1", "u1", "true", "c1", "undefined")

RaceGetConversationMessages == Room /\ GetConversationMessages("u1", "c1", "undefined", "5")

RaceGetConversations == Room /\ GetConversations("u1", "undefined", "5", "undefined")

RaceRenameConversation == Room /\ RenameConversation("c1", "New", "u1", "true")

RaceDeleteConversation == Room /\ DeleteConversation("c1", "u1")

RaceSendRequest ==
  Room /\ SendRequest("GET", "/parameters", Undefined, Undefined, "undefined",
                      "Authorization" :> "Bearer other")

RaceAxiosResolve == \E i \in DOMAIN calls : AxiosResolve(i, "r200")

RaceAxiosReject == \E i \in DOMAIN calls : AxiosReject(i, "e500")

NextConcurrent ==
  \/ RaceUpdateApiKey
  \/ RaceMessageFeedback
  \/ RaceGetApplicationParameters
  \/ RaceFileUpload
  \/ RaceCreateCompletionMessage
  \/ RaceRunWorkflow
  \/ RaceCreateChatMessage
  \/ RaceGetConversationMessages
  \/ RaceGetConversations
  \/ RaceRenameConversation
  \/ RaceDeleteConversation
  \/ RaceSendRequest
  \/ RaceAxiosResolve
  \/ RaceAxiosReject

SpecConcurrent == InitConcurrent /\ [][NextConcurrent]_vars

-----------------------------------------------------------------------------
(* Properties *)

CallsOf(ops) == {i \in DOMAIN calls : calls[i].op \in ops}

\* the call a step has just issued, if any
Issued(i) == i \in DOMAIN calls' /\ i \notin DOMAIN calls

\* C1: in every request of createCompletionMessage, runWorkflow and
\* createChatMessage the body's response_mode is "streaming" exactly when the
\* stream argument is true and "blocking" otherwise, and both the streaming flag
\* handed to sendRequest and the transport's responseType agree with it.
C1_ResponseModeMatchesStream ==
  \A i \in CallsOf({"createCompletionMessage", "runWorkflow", "createChatMessage"}) :
    LET c == calls[i]
        mode == c.req.data.response_mode
    IN /\ mode = (IF c.args.stream = "true" THEN "streaming" ELSE "blocking")
       /\ Truthy(c.stream) <=> (mode = "streaming")
       /\ c.req.responseType = (IF mode = "streaming" THEN "stream" ELSE "json")

C1_Witness ==
  \E i \in CallsOf({"createCompletionMessage"}) :
    /\ calls[i].args.stream = "true"
    /\ calls[i].req.data.response_mode = "streaming"
    /\ calls[i].req.responseType = "stream"

\* C2: an updateApiKey call with an empty or missing key throws and leaves the
\* stored apiKey as it was.
C2_EmptyKeyRejected ==
  (updateLog.called /\ updateLog.arg \in {"", "undefined"})
    => (updateLog.threw /\ apiKey = updateLog.before)

\* C3: a request issued by a client operation carries "Bearer " followed by
\* the apiKey stored at the moment of the call, and no later step (another
\* call, an updateApiKey, a response) changes the operation, arguments or
\* request envelope of a call already issued.
C3_KeyAtCallTime ==
  [][\A i \in DOMAIN calls' :
       /\ (Issued(i) /\ calls'[i].op # "sendRequest")
            => calls'[i].req.headers["Authorization"] = "Bearer " \o apiKey
       /\ i \in DOMAIN calls
            => /\ calls'[i].op = calls[i].op
               /\ calls'[i].args = calls[i].args
               /\ calls'[i].req = calls[i].req]_vars

C3_Witness ==
  /\ Len(calls) = 2
  /\ \A i \in DOMAIN calls : calls[i].op # "sendRequest"
  /\ calls[1].promise = Pending
  /\ calls[1].req.headers["Authorization"] = "Bearer k1"
  /\ apiKey = "k2"
  /\ calls[2].req.headers["Authorization"] = "Bearer k2"

\* C4: when the transport rejects a request, the operation's promise is
\* rejected with the same error value and one transport call was made for it;
\* no operation makes more than one transport call.
C4_RejectionPassesThrough ==
  \A i \in DOMAIN calls :
    /\ calls[i].attempts = 1
    /\ calls[i].transport.kind = "rejected"
         => /\ calls[i].promise.kind = "rejected"
            /\ calls[i].promise.v = calls[i].transport.v

C4_Witness ==
  \E i \in DOMAIN calls :
    /\ calls[i].transport = Settled("rejected", "e500")
    /\ calls[i].promise = Settled("rejected", "e500")

\* C5: the body of a createChatMessage request has the key conversation_id
\* exactly when the conversation_id argument is truthy, and then its value is
\* the argument.
C5_ConversationIdOnlyIfTruthy ==
  \A i \in CallsOf({"createChatMessage"}) :
    LET c == calls[i]
    IN /\ ("conversation_id" \in DOMAIN c.req.data) <=> Truthy(c.args.conversation_id)
       /\ "conversation_id" \in DOMAIN c.req.data
            => c.req.data["conversation_id"] = c.args.conversation_id

C5_Witness ==
  /\ \E i \in CallsOf({"createChatMessage"}) :
       /\ calls[i].args.conversation_id \in {"", "null"}
       /\ "conversation_id" \notin DOMAIN calls[i].req.data
       /\ "files" \in DOMAIN calls[i].req.data

\* C6: the query of getConversationMessages has user and, of conversation_id,
\* first_id and limit, exactly the keys whose argument is truthy; the query of
\* getConversations always has the four keys user, first_id, limit and pinned,
\* an omitted one holding null.
C6_QueryKeys ==
  /\ \A i \in CallsOf({"getConversationMessages"}) :
       LET c == calls[i]
       IN /\ "user" \in DOMAIN c.req.params
          /\ DOMAIN c.req.params \subseteq {"user", "conversation_id", "first_id", "limit"}
          /\ \A k \in {"conversation_id", "first_id", "limit"} :
               /\ (k \in DOMAIN c.req.params) <=> Truthy(c.args[k])
               /\ k \in DOMAIN c.req.params => c.req.params[k] = c.args[k]
  /\ \A i \in CallsOf({"getConversations"}) :
       LET c == calls[i]
       IN /\ DOMAIN c.req.params = {"user", "first_id", "limit", "pinned"}
          /\ \A k \in {"first_id", "limit", "pinned"} :
               c.req.params[k] = (IF c.args[k] = "undefined" THEN "null" ELSE c.args[k])

C6_Witness ==
  \E i \in CallsOf({"getConversations"}) :
    /\ calls[i].args.limit = "0"
    /\ calls[i].args.pinned = "undefined"
    /\ calls[i].req.params.limit = "0"
    /\ calls[i].req.params.pinned = "null"

\* C7: a fileUpload request has Content-Type multipart/form-data, no header
\* whose value is application/json, an Authorization header, the caller's form
\* data as body, and is dispatched non-streaming.
C7_FileUploadHeaders ==
  \A i \in CallsOf({"fileUpload"}) :
    LET c == calls[i]
    IN /\ c.req.headers["Content-Type"] = "multipart/form-data"
       /\ \A h \in DOMAIN c.req.headers : c.req.headers[h] # "application/json"
       /\ "Authorization" \in DOMAIN c.req.headers
       /\ c.req.data = c.args.data
       /\ ~Truthy(c.stream)
       /\ c.req.responseType = "json"

C7_Witness ==
  \E i \in CallsOf({"fileUpload"}) :
    /\ calls[i].req.headers["Content-Type"] = "multipart/form-data"
    /\ calls[i].req.data = [form |-> "fd1"]

\* the table of section 6 of the specification
SpecMethod ==
  [getApplicationParameters |-> "GET", messageFeedback |-> "POST",
   createCompletionMessage |-> "POST", createChatMessage |-> "POST",
   getConversationMessages |-> "GET", getConversations |-> "GET",
   renameConversation |-> "POST", deleteConversation |-> "DELETE", fileUpload |-> "POST",
   runWorkflow |-> "POST"]

SpecPath(c) ==
  CASE c.op = "getApplicationParameters" -> "/parameters"
    [] c.op = "messageFeedback" -> "/messages/" \o c.args.message_id \o "/feedbacks"
    [] c.op = "createCompletionMessage" -> "/completion-messages"
    [] c.op = "createChatMessage" -> "/chat-messages"
    [] c.op = "getConversationMessages" -> "/messages"
    [] c.op = "getConversations" -> "/conversations"
    [] c.op = "renameConversation" -> "/conversations/" \o c.args.conversation_id \o "/name"
    [] c.op = "deleteConversation" -> "/conversations/" \o c.args.conversation_id
    [] c.op = "fileUpload" -> "/files/upload"
    [] c.op = "runWorkflow" -> "/workflows/run"

\* C8: every client operation issues its request with the method and path of
\* the specification's table, the path parameter interpolated unchanged, at
\* the URL baseUrl followed by the path; renameConversation sends the body
\* {name, user, auto_generate} of its arguments.
C8_MethodAndPath ==
  \A i \in CallsOf(DOMAIN SpecMethod) :
    LET c == calls[i]
    IN /\ c.req.method = SpecMethod[c.op]
       /\ c.req.url = baseUrl \o SpecPath(c)
       /\ c.op = "renameConversation"
            => c.req.data = [name |-> c.args.name, user |-> c.args.user,
                             auto_generate |-> c.args.auto_generate]

C8_Witness ==
  \E i \in CallsOf({"renameConversation"}) :
    /\ calls[i].args = [conversation_id |-> "c1", name |-> "New", user |-> "u1",
                        auto_generate |-> "true"]
    /\ calls[i].req.method = "POST"
    /\ calls[i].req.url = BASE_URL \o "/conversations/c1/name"
    /\ calls[i].req.data = [name |-> "New", user |-> "u1", auto_generate |-> "true"]

\* C9 as stated: every request issued through sendRequest, whatever its
\* extraHeaders, carries Authorization "Bearer " followed by the client's apiKey.
C9_AlwaysBearerApiKey ==
  [][\A i \in DOMAIN calls' :
       Issued(i) => calls'[i].req.headers["Authorization"] = "Bearer " \o apiKey]_vars

OverridesAuthorization(c) ==
  c.op = "sendRequest" /\ "Authorization" \in DOMAIN c.args.headerParams

\* C9 as amended: every request issued through sendRequest carries an
\* Authorization header; it is "Bearer " followed by the client's apiKey
\* unless the caller's extraHeaders has its own Authorization entry, and
\* then it is that entry.  No client operation passes such an entry.
C9_BearerUnlessOverridden ==
  [][\A i \in DOMAIN calls' :
       Issued(i) =>
         LET c == calls'[i]
         IN /\ "Authorization" \in DOMAIN c.req.headers
            /\ c.req.headers["Authorization"] =
                 (IF OverridesAuthorization(c)
                    THEN c.args.headerParams["Authorization"]
                    ELSE "Bearer " \o apiKey)
            /\ c.op # "sendRequest" => ~OverridesAuthorization(c)]_vars

C9_Witness ==
  \E i \in CallsOf({"sendRequest"}) :
    /\ calls[i].args.headerParams = ("Content-Type" :> "text/plain")
    /\ calls[i].req.headers["Content-Type"] = "text/plain"
    /\ calls[i].req.headers["Authorization"] = "Bearer k2"

IsConfigCall(c) == c.op = "createChatMessage" /\ "query" \in DOMAIN c.args.inputs

\* C10: createChatMessage called with one ChatMessageConfig object issues a
\* request whose body carries the config's inputs, query, user and files, whose
\* response_mode is "streaming" exactly when config.stream is true, and which
\* has conversation_id exactly when config.conversation_id is non-empty.
C10_ConfigCallHonoured ==
  \A i \in DOMAIN calls :
    IsConfigCall(calls[i]) =>
      LET config == calls[i].args.inputs
          data == calls[i].req.data
      IN /\ data.inputs = config.inputs
         /\ data.query = config.query
         /\ data.user = config.user
         /\ data.files = config.files
         /\ (data.response_mode = "streaming") <=> (config.stream = "true")
         /\ ("conversation_id" \in DOMAIN data) <=> Truthy(config.conversation_id)

====
